---- MODULE Spec2Model ----
(***************************************************************************)
(* State-machine model of the Jira REST client (src/api/jiraClient.ts):    *)
(* request pacing (rateLimit), the retry/backoff machine (fetchWithRetry)  *)
(* and its callers getProject, searchIssues and getAllIssues.              *)
(*                                                                         *)
(* Time is in milliseconds, as in the code.  A text (an error message, a   *)
(* response body) is a sequence of word tokens, String.includes is         *)
(* containment of a token sequence; a header value is a sequence of        *)
(* one-character strings, because parseInt works character by character.   *)
(***************************************************************************)
EXTENDS Integers, Sequences, FiniteSets, TLC

(* ------------------------------ bounds -------------------------------- *)
\* largest server-side total in the retry scenarios (one page)
SmallTotal == 0
\* largest caller cap in the retry scenarios
SmallLimit == 0
\* largest server-side total in the pagination scenarios (3 pages of 50)
MaxTotal == 137
\* largest caller cap in the pagination scenarios
MaxLimit == 60
\* non-success outcomes the environment may inject, retry scenarios
MaxFaults == 4
\* non-success outcomes the environment may inject, pagination scenarios
MaxPageFaults == 1
\* top-level client operations per run, retry scenarios
MaxCalls == 2
\* ledger calls per run, ledger scenarios
MaxOps == 3
\* writeFileSync calls that may fail per run
MaxWriteFaults == 1
\* largest issue index the caller passes to updateProgress
MaxIndex == 1
\* ledger calls two instances over one directory make between them
MaxSharedOps == 2
\* a one-page collection in the orchestrator scenarios
MidTotal == 20
\* non-success outcomes the environment may inject, orchestrator scenarios
MaxRunFaults == 4
\* non-success outcomes the environment may inject, restart scenarios
MaxScraperFaults == 1
\* the position of the item transformIssue may throw on
BadItem == 9
\* clock reading when the client is constructed
StartClock == 5000
\* a network round trip / caller think time shorter than minDelay
Latency == 400

(* -------------------------- program constants ------------------------- *)
minDelay == 1000
maxRetries == 3
maxResults == 50
MAX_ISSUES_PER_PROJECT == 100
\* the period of the checkpoint update in scrapeProject's item loop
CheckpointEvery == 10
\* encoding of `limit = null`
NoLimit == -1

(* ------------------------------- texts -------------------------------- *)
RECURSIVE Pow2(_)
\* Math.pow(2, retryCount)
Pow2(k) == IF k = 0 THEN 1 ELSE 2 * Pow2(k - 1)

\* String.prototype.includes on token sequences
Includes(text, needle) ==
    \E i \in 1..(Len(text) - Len(needle) + 1) :
        SubSeq(text, i, i + Len(needle) - 1) = needle

DigitChars == {"0", "1", "2", "3", "4", "5", "6", "7", "8", "9"}

DigitValue(c) ==
    CASE c = "0" -> 0 [] c = "1" -> 1 [] c = "2" -> 2 [] c = "3" -> 3
      [] c = "4" -> 4 [] c = "5" -> 5 [] c = "6" -> 6 [] c = "7" -> 7
      [] c = "8" -> 8 [] c = "9" -> 9

RECURSIVE SkipSpace(_)
SkipSpace(s) == IF s # <<>> /\ Head(s) = " " THEN SkipSpace(Tail(s)) ELSE s

RECURSIVE DigitPrefix(_)
\* the longest prefix of s made of decimal digits
DigitPrefix(s) ==
    IF s # <<>> /\ Head(s) \in DigitChars
    THEN <<Head(s)>> \o DigitPrefix(Tail(s))
    ELSE <<>>

RECURSIVE DecimalValue(_, _)
DecimalValue(ds, acc) ==
    IF ds = <<>> THEN acc ELSE DecimalValue(Tail(ds), 10 * acc + DigitValue(Head(ds)))

Num(n) == [nan |-> FALSE, n |-> n]
NaN == [nan |-> TRUE, n |-> 0]

\* parseInt(s): leading white space, an optional sign, then the longest run
\* of digits; NaN when there is no digit there
ParseInt(s) ==
    LET t == SkipSpace(s)
        neg == t # <<>> /\ Head(t) = "-"
        u == IF t # <<>> /\ Head(t) \in {"-", "+"} THEN Tail(t) ELSE t
        ds == DigitPrefix(u)
    IN  IF ds = <<>> THEN NaN
        ELSE Num(IF neg THEN 0 - DecimalValue(ds, 0) ELSE DecimalValue(ds, 0))

\* x * 1000 on a JavaScript number
Times1000(x) == IF x.nan THEN NaN ELSE Num(x.n * 1000)

\* time `await new Promise(resolve => setTimeout(resolve, ms))` suspends
\* its caller: the runtime runs a timer whose delay is NaN or below 1 after
\* 1 ms
Sleep(ms) == IF ms.nan \/ ms.n < 1 THEN 1 ELSE ms.n


(* --------------------------- HTTP outcomes ---------------------------- *)
\* headers.get('Retry-After'): null when the header is absent
NoHeader == [present |-> FALSE, value |-> <<>>]
Header(v) == [present |-> TRUE, value |-> v]

\* Retry-After values a server may send: empty, delay-seconds, an HTTP-date
\* (abbreviated to its first characters)
RetryAfterValues ==
    { <<>>, <<"0">>, <<"2">>, <<"W", "e", "d", ",">> }

RetryAfterHeaders == {NoHeader} \cup {Header(v) : v \in RetryAfterValues}

\* response bodies of error responses
Bodies == { <<>>, <<"Not", "Found">>, <<"network", "unreachable">> }

\* messages of a rejected fetch(): the runtime's own, and two others
RejectMessages ==
    { <<"fetch", "failed">>, <<"socket", "network", "error">>,
      <<"connect", "ECONNREFUSED">> }

Http(st, ra, body, parsable) ==
    [kind |-> "http", status |-> st, retryAfter |-> ra, body |-> body,
     parsable |-> parsable, message |-> <<>>]

Reject(msg) ==
    [kind |-> "reject", status |-> 0, retryAfter |-> NoHeader, body |-> <<>>,
     parsable |-> FALSE, message |-> msg]

NoResponse == Http(0, NoHeader, <<>>, FALSE)

\* the outcome a correct exchange has: 200 with a JSON body
Success == Http(200, NoHeader, <<>>, TRUE)

\* every other outcome of one attempt
Faults ==
    {Http(200, NoHeader, <<>>, FALSE), Http(304, NoHeader, <<>>, FALSE)}
    \cup {Http(404, NoHeader, b, FALSE) : b \in Bodies}
    \cup {Http(429, h, <<>>, FALSE) : h \in RetryAfterHeaders}
    \cup {Http(500, NoHeader, <<>>, FALSE), Http(599, Header(<<"2">>), <<>>, FALSE)}
    \cup {Reject(m) : m \in RejectMessages}

(* ----------------------- fetchWithRetry, pure part -------------------- *)
RateLimitMessage ==
    <<"Rate", "limit", "exceeded", "after", ToString(maxRetries), "retries">>

ServerErrorMessage(st) ==
    <<"Server", "error", ToString(st), "after", ToString(maxRetries), "retries">>

ClientErrorMessage(st, body) ==
    <<"Client", "error", ToString(st), ":">> \o body

\* mutant: a linear instead of an exponential backoff
BackoffLinear(k) == Num((k + 1) * 1000)

\* Math.pow(2, retryCount) * 1000
Backoff(k) == Num(Pow2(k) * 1000)

\* retryAfter ? parseInt(retryAfter) * 1000 : Math.pow(2, retryCount) * 1000
\* (null and the empty string are falsy)
WaitTime429(ra, k) ==
    IF ra.present /\ ra.value # <<>>
    THEN Times1000(ParseInt(ra.value))
    ELSE Backoff(k)

\* mutant: one retry more
CanRetryOneMore(k) == k < maxRetries + 1

\* mutant: one retry fewer
CanRetryOneLess(k) == k < maxRetries - 1

\* retryCount < this.maxRetries
CanRetry(k) == k < maxRetries

\* error.message.includes('fetch failed') || error.message.includes('network')
IsNetworkError(msg) ==
    Includes(msg, <<"fetch", "failed">>) \/ Includes(msg, <<"network">>)

Is429(st) == st = 429
\* mutant: the 5xx range starts one too high
Is5xxAbove500(st) == st > 500 /\ st < 600
Is5xx(st) == st >= 500 /\ st < 600
Is4xx(st) == st >= 400 /\ st < 500
\* Response.ok
IsOk(st) == st >= 200 /\ st <= 299

Outcome(waits, next, err) == [waits |-> waits, next |-> next, error |-> err]

\* mutant: the catch clause tests the retry cap before it waits
CatchCapFirst(msg, k, waits) ==
    IF IsNetworkError(msg) /\ CanRetry(k)
    THEN Outcome(waits \o <<Backoff(k)>>, "retry", <<>>)
    ELSE Outcome(waits, "throw", msg)

\* mutant: the catch clause retries without backing off
CatchNoBackoff(msg, k, waits) ==
    IF IsNetworkError(msg)
    THEN IF CanRetry(k)
         THEN Outcome(waits, "retry", <<>>)
         ELSE Outcome(waits, "throw", msg)
    ELSE Outcome(waits, "throw", msg)

\* the catch clause: an error thrown in the try block, after `waits`
Catch(msg, k, waits) ==
    IF IsNetworkError(msg)
    THEN IF CanRetry(k)
         THEN Outcome(waits \o <<Backoff(k)>>, "retry", <<>>)
         ELSE Outcome(waits \o <<Backoff(k)>>, "throw", msg)
    ELSE Outcome(waits, "throw", msg)

\* one pass through the body of fetchWithRetry after rateLimit(), for the
\* attempt with retry count k whose fetch() settled as r: the suspensions
\* it requests, and whether it then retries, throws or returns.  A nested
\* fetchWithRetry is returned without await, so its failure does not pass
\* through this catch clause.
Attempt(r, k) ==
    IF r.kind = "reject" THEN Catch(r.message, k, <<>>)
    ELSE IF Is429(r.status)
    THEN IF CanRetry(k)
         THEN Outcome(<<WaitTime429(r.retryAfter, k)>>, "retry", <<>>)
         ELSE Catch(RateLimitMessage, k, <<WaitTime429(r.retryAfter, k)>>)
    ELSE IF Is5xx(r.status)
    THEN IF CanRetry(k)
         THEN Outcome(<<Backoff(k)>>, "retry", <<>>)
         ELSE Catch(ServerErrorMessage(r.status), k, <<Backoff(k)>>)
    ELSE IF Is4xx(r.status)
    THEN Catch(ClientErrorMessage(r.status, r.body), k, <<>>)
    ELSE Outcome(<<>>, "return", <<>>)

RECURSIVE SleepAll(_)
\* total time the suspensions of one pass take
SleepAll(waits) ==
    IF waits = <<>> THEN 0 ELSE Sleep(Head(waits)) + SleepAll(Tail(waits))


(* ------------------------------- state -------------------------------- *)
VARIABLES
    requestCount,     \* JiraApiClient.requestCount
    lastRequestTime,  \* JiraApiClient.lastRequestTime
    now,              \* the clock Date.now() reads
    total,            \* the server's `total` of the searched collection
    env,              \* what the environment may do: caller caps, latencies
    faultsLeft,       \* non-success outcomes the environment may still inject
    callsLeft,        \* top-level operations the caller may still start
    op,               \* the running top-level operation
    pc,               \* where the running operation is suspended
    retryCount,       \* fetchWithRetry's retryCount of the current attempt
    response,         \* what the last fetch() settled as
    error,            \* the message of the Error fetchWithRetry threw
    limit,            \* getAllIssues: limit (NoLimit for null)
    allIssues,        \* getAllIssues: allIssues
    startAt,          \* getAllIssues: startAt
    hasMore,          \* getAllIssues: hasMore
    page,             \* what searchIssues returned to getAllIssues
    result,           \* what the last top-level operation returned
    attempts,         \* history: fetch() calls of the current logical request
    backoffs,         \* history: backoff suspensions of the current logical request
    all429,           \* history: every attempt of it was answered 429 so far
    lastK,            \* history: retry count of the attempt last settled
    lastWaits,        \* history: the suspensions that attempt requested
    prevIssuedAt,     \* history: clock at the fetch() call before the last
    pages,            \* history: startAt of each searchIssues call of the run
    pageFailed,       \* history: a searchIssues call of the run returned null
    fetchCalls,       \* history: fetch() calls this client instance has made
    checkpoint,       \* CheckpointManager.checkpoint, the in-memory document
    disk,             \* the checkpoint file: absent, or its text
    loaded,           \* history: the constructor read the document from the file
    opsLeft,          \* scenario: ledger calls the caller may still make
    writeFaultsLeft,  \* scenario: writeFileSync calls that may still fail
    lastCall,         \* history: the last ledger call and its arguments
    prevDoc,          \* history: the in-memory document before the last call
    prevDisk,         \* history: the file before the last call
    lastWrites,       \* history: outcomes of the last call's writeFileSync calls
    lastWrite,        \* history: outcome of the latest writeFileSync, if any
    durableDoc,       \* history: the in-memory document at the latest write that succeeded
    peerCheckpoint,   \* checkpoint of a second CheckpointManager over the same directory
    peerWrites,       \* history: outcomes of its last call's writeFileSync calls
    url,              \* the project key in the URL of the current client call
    asked,            \* history: project keys this client instance sent a request for
    phase,            \* the process: boot, project, issues, summary, interrupted, crashed
    resume,           \* scrape(resumeFromCheckpoint)
    current,          \* position in TARGET_PROJECTS of the project in progress
    lastIndex,        \* scrapeProject's lastIndex
    processed,        \* history: the last item loop of this run and the items it visited
    attempted,        \* history: projects this run called scrapeProject for
    startDoc,         \* history: the in-memory document when scrape() began
    mayRestart,       \* scenario: a later process may still be started
    badItems,         \* scenario: positions of the items transformIssue throws on
    scrapedData,      \* JiraRestScraper.scrapedData
    outputs,          \* history: the project key and position of every issue in an exported file
    rawIssue,         \* transformIssue: the fields of rawIssue it reads
    issueData,        \* transformIssue: the JiraIssueData it returned
    callers,          \* overlapping callers of one client: where each is suspended
    issued            \* history: the fetch() calls of overlapping callers, in order

vars ==
    <<requestCount, lastRequestTime, now, total, env, faultsLeft, callsLeft,
      op, pc, retryCount, response, error, limit, allIssues, startAt, hasMore,
      page, result, attempts, backoffs, all429, lastK, lastWaits, prevIssuedAt, pages,
      pageFailed, fetchCalls, checkpoint, disk, loaded, opsLeft,
      writeFaultsLeft, lastCall, prevDoc, prevDisk, lastWrites, lastWrite,
      durableDoc, peerCheckpoint, peerWrites, url, asked,
      phase, resume, current, lastIndex, processed,
      attempted, startDoc, mayRestart, badItems, scrapedData, outputs,
      rawIssue, issueData, callers, issued>>

orchVars ==
    <<phase, resume, current, lastIndex, processed, attempted, startDoc,
      mayRestart, badItems, scrapedData, outputs>>

ledgerVars ==
    <<checkpoint, disk, loaded, opsLeft, writeFaultsLeft, lastCall, prevDoc,
      prevDisk, lastWrites, lastWrite, durableDoc, peerCheckpoint,
      peerWrites>>
apiVars ==
    <<requestCount, lastRequestTime, total, env, faultsLeft, callsLeft, op, pc,
      retryCount, response, error, limit, allIssues, startAt, hasMore, page,
      result, attempts, backoffs, all429, lastK, lastWaits, prevIssuedAt, pages,
      pageFailed, fetchCalls, url, asked>>

\* state of the parts of the program exercised on their own
partVars == <<rawIssue, issueData, callers, issued>>

clientVars == <<requestCount, lastRequestTime>>
envVars == <<total, env>>
pagingVars == <<limit, allIssues, startAt, hasMore>>

NoPage == [present |-> FALSE, issues |-> <<>>, total |-> 0]
NoResult == [kind |-> "none", issues |-> <<>>]

Min(a, b) == IF a < b THEN a ELSE b

\* the server's answer to search?startAt=s&maxResults=m: a full page of
\* the collection's items s .. s+m-1 (items are named by their position)
ServerPage(s, m) ==
    [present |-> TRUE,
     issues |-> [i \in 1..(IF s < total THEN Min(m, total - s) ELSE 0) |-> s + i - 1],
     total |-> total]

(* ------------------------ the checkpoint ledger ----------------------- *)
\* project names and issue keys the caller passes
Names == {"KAFKA", "SPARK"}
IssueKeys == {"KAFKA-1", "KAFKA-2"}
Indexes == 0..MaxIndex

\* function f with the entry n |-> v added or replaced
Put(f, n, v) == [m \in DOMAIN f \cup {n} |-> IF m = n THEN v ELSE f[m]]

\* the fallback document of load(): { projects: {}, startTime, lastUpdateTime }
EmptyDoc(t) == [projects |-> << >>, startTime |-> t, lastUpdateTime |-> t]

\* JSON.stringify(checkpoint): the text lists one entry per project
Stringify(doc) ==
    [entries |-> {<<n, doc.projects[n]>> : n \in DOMAIN doc.projects},
     startTime |-> doc.startTime,
     lastUpdateTime |-> doc.lastUpdateTime]

\* mutant: JSON.parse loses the completed flag
ParseDropsCompleted(text) ==
    [projects |-> [n \in {e[1] : e \in text.entries} |->
                      [(CHOOSE e \in text.entries : e[1] = n)[2]
                          EXCEPT !.completed = FALSE]],
     startTime |-> text.startTime,
     lastUpdateTime |-> text.lastUpdateTime]

\* JSON.parse(data)
Parse(text) ==
    [projects |-> [n \in {e[1] : e \in text.entries} |->
                      (CHOOSE e \in text.entries : e[1] = n)[2]],
     startTime |-> text.startTime,
     lastUpdateTime |-> text.lastUpdateTime]

Absent == [kind |-> "absent", text |-> Stringify(EmptyDoc(0))]
File(text) == [kind |-> "file", text |-> text]
\* a file that exists but makes readFileSync or JSON.parse throw; text is
\* what remains of the document in it
Unreadable(text) == [kind |-> "unreadable", text |-> text]

\* mutant: load() recovers the records of a file it cannot parse
LoadSalvages(dsk, t) == IF dsk.kind = "absent" THEN EmptyDoc(t) ELSE Parse(dsk.text)

\* load(): the parsed file when it exists and parses; the fallback document
\* when it does not exist or when reading or parsing it throws
Load(dsk, t) == IF dsk.kind = "file" THEN Parse(dsk.text) ELSE EmptyDoc(t)

\* the record initProject creates
FreshRecord(n, t) ==
    [projectKey |-> n, lastIssueKey |-> "", lastIssueIndex |-> -1,
     totalIssuesProcessed |-> 0, timestamp |-> t, completed |-> FALSE]

\* a ledger call in progress: the document, the file, and the outcomes of
\* the writeFileSync calls made so far
Start(doc, dsk) == [doc |-> doc, disk |-> dsk, writes |-> <<>>, written |-> durableDoc]

\* mutant: save() keeps the records of the file that the document lacks
SaveMerging(st, ok, t) ==
    LET stamped == [st.doc EXCEPT !.lastUpdateTime = t]
        onFile == IF st.disk.kind = "file" THEN Parse(st.disk.text).projects ELSE << >>
        merged == [stamped EXCEPT !.projects =
                      [n \in DOMAIN onFile \cup DOMAIN stamped.projects |->
                          IF n \in DOMAIN stamped.projects THEN stamped.projects[n]
                          ELSE onFile[n]]]
    IN  [doc |-> stamped,
         disk |-> IF ok THEN File(Stringify(merged)) ELSE st.disk,
         writes |-> Append(st.writes, ok),
         written |-> IF ok THEN stamped ELSE st.written]

\* mutant: save() writes again when writeFileSync throws
SaveRetried(st, ok, t) ==
    LET stamped == [st.doc EXCEPT !.lastUpdateTime = t] IN
    [doc |-> stamped,
     disk |-> File(Stringify(stamped)),
     writes |-> Append(st.writes, ok),
     written |-> stamped]

\* mutant: save() writes the file before it stamps lastUpdateTime
SaveStale(st, ok, t) ==
    [doc |-> [st.doc EXCEPT !.lastUpdateTime = t],
     disk |-> IF ok THEN File(Stringify(st.doc)) ELSE st.disk,
     writes |-> Append(st.writes, ok),
     written |-> IF ok THEN st.doc ELSE st.written]

\* save(): stamp lastUpdateTime, then writeFileSync, whose failure (~ok) is
\* caught and logged
Save(st, ok, t) ==
    LET stamped == [st.doc EXCEPT !.lastUpdateTime = t] IN
    [doc |-> stamped,
     disk |-> IF ok THEN File(Stringify(stamped)) ELSE st.disk,
     writes |-> Append(st.writes, ok),
     written |-> IF ok THEN stamped ELSE st.written]

\* mutant: initProject resets a record that exists
InitProjectReset(st, n, ok, t) ==
    Save([st EXCEPT !.doc.projects = Put(@, n, FreshRecord(n, t))], ok, t)

\* initProject(projectKey)
InitProject(st, n, ok, t) ==
    IF n \in DOMAIN st.doc.projects
    THEN st
    ELSE Save([st EXCEPT !.doc.projects = Put(@, n, FreshRecord(n, t))], ok, t)

\* mutant: updateProgress does not count the call
ProgressUncounted(rec, k, i, t) ==
    [rec EXCEPT !.lastIssueKey = k, !.lastIssueIndex = i, !.timestamp = t]

\* the fields updateProgress assigns
Progress(rec, k, i, t) ==
    [rec EXCEPT !.lastIssueKey = k, !.lastIssueIndex = i,
                !.totalIssuesProcessed = @ + 1, !.timestamp = t]

\* updateProgress(projectKey, issueKey, issueIndex)
UpdateProgress(st, n, k, i, ok1, ok2, t) ==
    LET s1 == InitProject(st, n, ok1, t) IN
    Save([s1 EXCEPT !.doc.projects[n] = Progress(@, k, i, t)], ok2, t)

\* mutant: markProjectCompleted creates the record it does not find
MarkProjectCompletedCreates(st, n, ok, t) ==
    LET rec == IF n \in DOMAIN st.doc.projects THEN st.doc.projects[n]
               ELSE FreshRecord(n, t)
    IN  Save([st EXCEPT !.doc.projects = Put(@, n, [rec EXCEPT !.completed = TRUE])],
             ok, t)

\* markProjectCompleted(projectKey)
MarkProjectCompleted(st, n, ok, t) ==
    IF n \in DOMAIN st.doc.projects
    THEN Save([st EXCEPT !.doc.projects[n].completed = TRUE], ok, t)
    ELSE st

\* mutant: clear() keeps the records of completed projects
ClearKeepsCompleted(st, ok, t) ==
    LET kept == {n \in DOMAIN st.doc.projects : st.doc.projects[n].completed} IN
    Save([st EXCEPT !.doc = [EmptyDoc(t) EXCEPT
                                !.projects = [n \in kept |-> st.doc.projects[n]]]],
         ok, t)

\* clear()
Clear(st, ok, t) == Save([st EXCEPT !.doc = EmptyDoc(t)], ok, t)

\* getLastIndex(projectKey): projects[projectKey]?.lastIssueIndex ?? -1
getLastIndex(doc, n) ==
    IF n \in DOMAIN doc.projects THEN doc.projects[n].lastIssueIndex ELSE -1

\* isProjectCompleted(projectKey): projects[projectKey]?.completed ?? false
isProjectCompleted(doc, n) ==
    IF n \in DOMAIN doc.projects THEN doc.projects[n].completed ELSE FALSE

NoCall == [op |-> "none", name |-> "", key |-> "", index |-> -1]

\* new CheckpointManager(dir) at time t over the file dsk, which an earlier
\* instance left after writing the document wrote; the scenario allows ops calls
LedgerStart(dsk, wrote, t, ops) ==
    /\ disk = dsk
    /\ durableDoc = wrote
    /\ peerCheckpoint = Load(dsk, t)
    /\ peerWrites = <<>>
    /\ checkpoint = Load(dsk, t)
    /\ loaded = (dsk.kind = "file")
    /\ opsLeft = ops
    /\ writeFaultsLeft = MaxWriteFaults
    /\ lastCall = NoCall
    /\ prevDoc = Load(dsk, t)
    /\ prevDisk = dsk
    /\ lastWrites = <<>>
    /\ lastWrite = "none"

\* the ledger scenarios: MaxOps calls
LedgerInit(dsk, wrote, t) == LedgerStart(dsk, wrote, t, MaxOps)

\* new JiraApiClient(), with the environment of a scenario
ClientInit ==
    /\ requestCount = 0
    /\ lastRequestTime = 0
    /\ now = StartClock
    /\ op = "none"
    /\ pc = "idle"
    /\ retryCount = 0
    /\ response = NoResponse
    /\ error = <<>>
    /\ limit = NoLimit
    /\ allIssues = <<>>
    /\ startAt = 0
    /\ hasMore = FALSE
    /\ page = NoPage
    /\ result = NoResult
    /\ attempts = 0
    /\ backoffs = 0
    /\ all429 = TRUE
    /\ lastK = 0
    /\ lastWaits = <<>>
    /\ prevIssuedAt = -1
    /\ pages = <<>>
    /\ pageFailed = FALSE
    /\ fetchCalls = 0
    /\ url = ""
    /\ asked = {}

\* no item loop has run in this process
NoLoop == [key |-> "", last |-> -1, fetched |-> 0, items |-> <<>>]

\* a field of a raw issue: null or undefined, or a text or an array
NullSeq == [some |-> FALSE, val |-> <<>>]
Some(v) == [some |-> TRUE, val |-> v]
\* a field of a raw issue that is a name: null or undefined, or the name
NullName == [some |-> FALSE, val |-> ""]

\* no raw issue, no transformed issue
NoRawIssue == [description |-> NullSeq, resolution |-> NullName, labels |-> NullSeq,
               comments |-> NullSeq]
NoIssue == [description |-> <<>>, resolution |-> "", labels |-> <<>>,
            comments |-> <<>>, derivedTasks |-> <<>>]

\* transformIssue is not exercised
NoTask ==
    /\ rawIssue = NoRawIssue
    /\ issueData = NoIssue

\* the client has one caller at a time
NoCallers ==
    /\ callers = << >>
    /\ issued = <<>>

\* no JiraRestScraper: the client and the ledger are driven directly
NoScraper ==
    /\ phase = "none"
    /\ resume = TRUE
    /\ current = 0
    /\ lastIndex = -1
    /\ processed = NoLoop
    /\ attempted = <<>>
    /\ startDoc = EmptyDoc(0)
    /\ mayRestart = FALSE
    /\ badItems = {}
    /\ scrapedData = <<>>
    /\ outputs = {}

\* retry scenarios: a one-page collection, any mix of outcomes and latencies
Init ==
    /\ ClientInit
    /\ LedgerInit(Absent, EmptyDoc(0), StartClock)
    /\ NoScraper
    /\ NoTask
    /\ NoCallers
    /\ total \in 0..SmallTotal
    /\ env = [caps |-> {NoLimit} \cup 1..SmallLimit, latencies |-> {0, Latency},
             faults |-> Faults]
    /\ faultsLeft = MaxFaults
    /\ callsLeft = MaxCalls

\* pagination scenarios: collections of several pages, few faults
InitPages ==
    /\ ClientInit
    /\ LedgerInit(Absent, EmptyDoc(0), StartClock)
    /\ NoScraper
    /\ NoTask
    /\ NoCallers
    /\ total \in 0..MaxTotal
    /\ env = [caps |-> {NoLimit} \cup 0..MaxLimit, latencies |-> {0},
             faults |-> Faults]
    /\ faultsLeft = MaxPageFaults
    /\ callsLeft = 1

(* ------------------------------ actions ------------------------------- *)
\* a fresh logical request: fetchWithRetry(url) with retryCount = 0
EnterFetch ==
    /\ retryCount' = 0
    /\ response' = NoResponse
    /\ error' = <<>>
    /\ attempts' = 0
    /\ backoffs' = 0
    /\ all429' = TRUE
    /\ lastK' = 0
    /\ lastWaits' = <<>>
    /\ pc' = "rateLimit"

\* getProject(key) up to its first await
CallGetProject(key) ==
    /\ op' = "getProject"
    /\ url' = key
    /\ result' = NoResult
    /\ pages' = <<>>
    /\ pageFailed' = FALSE
    /\ page' = NoPage
    /\ EnterFetch
    /\ UNCHANGED <<clientVars, pagingVars, prevIssuedAt, fetchCalls, asked>>

\* getAllIssues(key, l) up to its first await, in the first
\* searchIssues(key, 0, 50)
CallGetAllIssues(key, l) ==
    /\ op' = "getAllIssues"
    /\ url' = key
    /\ limit' = l
    /\ result' = NoResult
    /\ allIssues' = <<>>
    /\ startAt' = 0
    /\ hasMore' = TRUE
    /\ pages' = <<0>>
    /\ pageFailed' = FALSE
    /\ page' = NoPage
    /\ EnterFetch
    /\ UNCHANGED <<clientVars, prevIssuedAt, fetchCalls, asked>>

\* the caller starts getProject(projectKey)
getProject ==
    /\ pc = "idle"
    /\ callsLeft > 0
    /\ \E t \in env.latencies : now' = now + t
    /\ callsLeft' = callsLeft - 1
    /\ CallGetProject("KAFKA")
    /\ UNCHANGED <<envVars, faultsLeft, ledgerVars, orchVars, partVars>>

\* the caller starts getAllIssues(projectKey, l)
getAllIssues ==
    /\ pc = "idle"
    /\ callsLeft > 0
    /\ \E t \in env.latencies : now' = now + t
    /\ callsLeft' = callsLeft - 1
    /\ \E l \in env.caps : CallGetAllIssues("KAFKA", l)
    /\ UNCHANGED <<envVars, faultsLeft, ledgerVars, orchVars, partVars>>

\* mutant: rateLimit() never waits
DelayNeededNone(t, last) == 0

\* the delay rateLimit() waits for, 0 when it does not wait
DelayNeeded(t, last) == IF t - last < minDelay THEN minDelay - (t - last) ELSE 0

\* mutant: only the first attempt of a logical request is counted
CountFirstAttemptOnly(n, k) == IF k = 0 THEN n + 1 ELSE n

\* this.requestCount++ in rateLimit(), whatever the retry count k
CountRequest(n, k) == n + 1

\* rateLimit(), then the fetch() call that follows it
rateLimit ==
    /\ pc = "rateLimit"
    /\ LET delayNeeded == DelayNeeded(now, lastRequestTime)
           woken == IF delayNeeded > 0 THEN now + Sleep(Num(delayNeeded)) ELSE now
       IN  /\ now' = woken
           /\ lastRequestTime' = woken
    /\ requestCount' = CountRequest(requestCount, retryCount)
    /\ fetchCalls' = fetchCalls + 1
    /\ asked' = asked \cup {url}
    /\ attempts' = attempts + 1
    /\ prevIssuedAt' = IF requestCount = 0 THEN -1 ELSE lastRequestTime
    /\ pc' = "inflight"
    /\ UNCHANGED <<envVars, faultsLeft, callsLeft, op, retryCount, response,
                   error, pagingVars, page, result, backoffs, all429, lastK,
                   lastWaits, pages, pageFailed, url, ledgerVars, orchVars, partVars>>

\* fetch() settles as r after d ms and the rest of fetchWithRetry runs:
\* the status dispatch, the backoff suspensions, and the retry, throw or return
Settle(d, r) ==
    LET a == Attempt(r, retryCount) IN
    /\ pc = "inflight"
    /\ now' = now + d + SleepAll(a.waits)
    /\ response' = r
    /\ lastK' = retryCount
    /\ lastWaits' = a.waits
    /\ backoffs' = backoffs + Len(a.waits)
    /\ all429' = (all429 /\ r.kind = "http" /\ r.status = 429)
    /\ faultsLeft' = IF r = Success THEN faultsLeft ELSE faultsLeft - 1
    /\ retryCount' = IF a.next = "retry" THEN retryCount + 1 ELSE retryCount
    /\ error' = a.error
    /\ pc' = CASE a.next = "retry" -> "rateLimit"
               [] a.next = "throw" -> "thrown"
               [] a.next = "return" -> "returned"
    /\ UNCHANGED <<clientVars, envVars, callsLeft, op, pagingVars, page, result,
                   attempts, prevIssuedAt, pages, pageFailed, fetchCalls,
                   url, asked, ledgerVars, orchVars, partVars>>

\* the server answers 200 with the JSON document
RespondSuccess == \E d \in env.latencies : Settle(d, Success)

\* the exchange ends any other way
RespondFault ==
    /\ faultsLeft > 0
    /\ \E d \in env.latencies, r \in env.faults : Settle(d, r)

\* mutant: getProject without its try/catch
ProjectResultNoCatch(returned, r) ==
    IF returned /\ ~IsOk(r.status) THEN [kind |-> "null", issues |-> <<>>]
    ELSE IF returned /\ r.parsable THEN [kind |-> "project", issues |-> <<>>]
    ELSE [kind |-> "raised", issues |-> <<>>]

\* what getProject returns once fetchWithRetry returned r (returned) or
\* threw: the parsed project, or null from `!response.ok` and from the catch
\* clause, which also takes a rejected response.json()
ProjectResult(returned, r) ==
    IF returned /\ IsOk(r.status) /\ r.parsable
    THEN [kind |-> "project", issues |-> <<>>]
    ELSE [kind |-> "null", issues |-> <<>>]

\* getProject after `await this.fetchWithRetry(url)`
getProjectSettles ==
    /\ op = "getProject"
    /\ pc \in {"returned", "thrown"}
    /\ result' = ProjectResult(pc = "returned", response)
    /\ pc' = "idle"
    /\ op' = "none"
    /\ UNCHANGED <<clientVars, now, envVars, faultsLeft, callsLeft, retryCount,
                   response, error, pagingVars, page, attempts, backoffs, all429, lastK,
                   lastWaits, prevIssuedAt, pages, pageFailed, fetchCalls,
                   url, asked, ledgerVars, orchVars, partVars>>

\* searchIssues after `await this.fetchWithRetry(url)`: the parsed page,
\* or null on a thrown error, a non-ok status or an unparsable body
searchIssuesSettles ==
    /\ op = "getAllIssues"
    /\ pc \in {"returned", "thrown"}
    /\ page' = IF pc = "returned" /\ IsOk(response.status) /\ response.parsable
               THEN ServerPage(startAt, maxResults)
               ELSE NoPage
    /\ pc' = "page"
    /\ UNCHANGED <<clientVars, now, envVars, faultsLeft, callsLeft, op,
                   retryCount, response, error, pagingVars, result, attempts, backoffs,
                   all429, lastK, lastWaits, prevIssuedAt, pages, pageFailed,
                   fetchCalls, url, asked, ledgerVars, orchVars, partVars>>

\* mutant: the cap is never reached
LimitReachedNever(l, n) == FALSE

\* mutant: a cap of 0 is a cap
LimitReachedAtZero(l, n) == l # NoLimit /\ n >= l

\* limit && allIssues.length >= limit
LimitReached(l, n) == l # NoLimit /\ l # 0 /\ n >= l

\* mutant: <= for < in the continuation test
HasMoreInclusive(s, t) == s + maxResults <= t

\* hasMore after a page at offset s: startAt + maxResults < response.total,
\* cleared again when the advanced startAt >= response.total
HasMore(s, t) == (s + maxResults < t) /\ ~(s + maxResults >= t)

\* mutant: the result is not cut to the cap
SliceNone(seq, n) == seq

\* allIssues.slice(0, limit)
Slice(seq, n) == SubSeq(seq, 1, Min(n, Len(seq)))

\* mutant: getAllIssues returns nothing
FinishEmpty(kind, issues) ==
    /\ result' = [kind |-> kind, issues |-> <<>>]
    /\ pc' = "idle"
    /\ op' = "none"

Finish(kind, issues) ==
    /\ result' = [kind |-> kind, issues |-> issues]
    /\ pc' = "idle"
    /\ op' = "none"

\* one pass of getAllIssues' loop body after `await this.searchIssues(...)`,
\* up to the next searchIssues call or the return
getAllIssuesStep ==
    /\ op = "getAllIssues"
    /\ pc = "page"
    /\ IF ~page.present
       THEN \* break
            /\ Finish("issues", allIssues)
            /\ pageFailed' = TRUE
            /\ UNCHANGED <<pagingVars, pages, retryCount, response, error,
                           attempts, backoffs, all429, lastK, lastWaits>>
       ELSE LET acc == allIssues \o page.issues IN
            /\ allIssues' = acc
            /\ IF LimitReached(limit, Len(acc))
               THEN /\ Finish("issues", Slice(acc, limit))
                    /\ UNCHANGED <<limit, startAt, hasMore, pages, pageFailed,
                                   retryCount, response, error, attempts, backoffs,
                                   all429, lastK, lastWaits>>
               ELSE /\ hasMore' = HasMore(startAt, page.total)
                    /\ startAt' = startAt + maxResults
                    /\ UNCHANGED <<limit, pageFailed>>
                    /\ IF HasMore(startAt, page.total)
                       THEN /\ pages' = Append(pages, startAt + maxResults)
                            /\ UNCHANGED <<result, op>>
                            /\ EnterFetch
                       ELSE /\ Finish("issues", acc)
                            /\ UNCHANGED <<pages, retryCount, response, error,
                                           attempts, backoffs, all429, lastK, lastWaits>>
    /\ UNCHANGED <<clientVars, now, envVars, faultsLeft, callsLeft, page,
                   prevIssuedAt, fetchCalls,
                   url, asked, ledgerVars, orchVars, partVars>>

Next ==
    \/ getProject
    \/ getAllIssues
    \/ rateLimit
    \/ RespondSuccess
    \/ RespondFault
    \/ getProjectSettles
    \/ searchIssuesSettles
    \/ getAllIssuesStep

Spec == Init /\ [][Next]_vars

SpecPages == InitPages /\ [][Next]_vars

\* partial-failure scenarios: a collection of several pages, many faults
InitPartial ==
    /\ ClientInit
    /\ LedgerInit(Absent, EmptyDoc(0), StartClock)
    /\ NoScraper
    /\ NoTask
    /\ NoCallers
    /\ total = MaxTotal
    /\ env = [caps |-> {NoLimit, MaxLimit}, latencies |-> {0}, faults |-> Faults]
    /\ faultsLeft = MaxFaults
    /\ callsLeft = 1

SpecPartial == InitPartial /\ [][Next]_vars

\* termination scenarios: collections of no, one, two and three pages, with
\* and without a cap, enough faults to exhaust the retries of a page
InitTerm ==
    /\ ClientInit
    /\ LedgerInit(Absent, EmptyDoc(0), StartClock)
    /\ NoScraper
    /\ NoTask
    /\ NoCallers
    /\ total \in {0, maxResults, maxResults + 1, MaxTotal}
    /\ env = [caps |-> {NoLimit, MaxLimit}, latencies |-> {0}, faults |-> Faults]
    /\ faultsLeft = MaxFaults
    /\ callsLeft = 1

\* fairness: every pending sleep ends and every request settles
SpecTerm == InitTerm /\ [][Next]_vars /\ WF_vars(Next)

(* --------------------------- ledger actions --------------------------- *)
\* writeFileSync outcomes the environment can still produce
WriteOutcomes == IF writeFaultsLeft > 0 THEN {TRUE, FALSE} ELSE {TRUE}

Failures(writes) == Cardinality({j \in DOMAIN writes : ~writes[j]})

\* the ledger call `call` ran to its end as st
Return(call, st) ==
    /\ opsLeft > 0
    /\ Failures(st.writes) <= writeFaultsLeft
    /\ checkpoint' = st.doc
    /\ disk' = st.disk
    /\ opsLeft' = opsLeft - 1
    /\ writeFaultsLeft' = writeFaultsLeft - Failures(st.writes)
    /\ lastCall' = call
    /\ prevDoc' = checkpoint
    /\ prevDisk' = disk
    /\ lastWrites' = st.writes
    /\ lastWrite' = IF st.writes = <<>> THEN lastWrite
                    ELSE IF st.writes[Len(st.writes)] THEN "ok" ELSE "failed"
    /\ durableDoc' = st.written
    /\ now' = now + 1
    /\ UNCHANGED <<apiVars, loaded, peerCheckpoint, peerWrites, orchVars, partVars>>

initProject ==
    \E n \in Names, ok \in WriteOutcomes :
        Return([op |-> "initProject", name |-> n, key |-> "", index |-> -1],
               InitProject(Start(checkpoint, disk), n, ok, now))

updateProgress ==
    \E n \in Names, k \in IssueKeys, i \in Indexes, ok1, ok2 \in WriteOutcomes :
        Return([op |-> "updateProgress", name |-> n, key |-> k, index |-> i],
               UpdateProgress(Start(checkpoint, disk), n, k, i, ok1, ok2, now))

markProjectCompleted ==
    \E n \in Names, ok \in WriteOutcomes :
        Return([op |-> "markProjectCompleted", name |-> n, key |-> "", index |-> -1],
               MarkProjectCompleted(Start(checkpoint, disk), n, ok, now))

clear ==
    \E ok \in WriteOutcomes :
        Return([op |-> "clear", name |-> "", key |-> "", index |-> -1],
               Clear(Start(checkpoint, disk), ok, now))

\* the process ends and a later run constructs a new CheckpointManager over
\* the same directory
Restart ==
    /\ opsLeft > 0
    /\ checkpoint' = Load(disk, now)
    /\ loaded' = (disk.kind = "file")
    /\ opsLeft' = opsLeft - 1
    /\ lastCall' = [op |-> "load", name |-> "", key |-> "", index |-> -1]
    /\ prevDoc' = checkpoint
    /\ prevDisk' = disk
    /\ lastWrites' = <<>>
    /\ lastWrite' = "none"
    /\ now' = now + 1
    /\ UNCHANGED <<apiVars, disk, writeFaultsLeft, durableDoc, peerCheckpoint,
                   peerWrites, orchVars, partVars>>

NextLedger ==
    \/ initProject
    \/ updateProgress
    \/ markProjectCompleted
    \/ clear
    \/ Restart

\* a record of a project an earlier run completed
CompletedRecord(n, k, i, t) ==
    [projectKey |-> n, lastIssueKey |-> k, lastIssueIndex |-> i,
     totalIssuesProcessed |-> 1, timestamp |-> t, completed |-> TRUE]

\* ledger scenarios: no checkpoint file, the file an earlier run left, or
\* that file damaged
InitLedger ==
    /\ ClientInit
    /\ total = 0
    /\ env = [caps |-> {NoLimit}, latencies |-> {0}, faults |-> Faults]
    /\ faultsLeft = 0
    /\ callsLeft = 0
    /\ NoScraper
    /\ NoTask
    /\ NoCallers
    /\ LET earlier == [EmptyDoc(0) EXCEPT !.projects =
                           Put(@, "KAFKA", CompletedRecord("KAFKA", "KAFKA-2", MaxIndex, 0))]
       IN  \/ LedgerInit(Absent, EmptyDoc(0), StartClock)
           \/ LedgerInit(File(Stringify(earlier)), earlier, StartClock)
           \/ LedgerInit(Unreadable(Stringify(earlier)), earlier, StartClock)

SpecLedger == InitLedger /\ [][NextLedger]_vars

(* ------------------ two instances over one directory ------------------ *)
\* a call of the second instance ran to its end as st
PeerReturn(st) ==
    /\ opsLeft > 0
    /\ Failures(st.writes) <= writeFaultsLeft
    /\ peerCheckpoint' = st.doc
    /\ peerWrites' = st.writes
    /\ disk' = st.disk
    /\ opsLeft' = opsLeft - 1
    /\ writeFaultsLeft' = writeFaultsLeft - Failures(st.writes)
    /\ durableDoc' = st.written
    /\ now' = now + 1
    /\ UNCHANGED <<apiVars, checkpoint, loaded, lastCall, prevDoc, prevDisk,
                   lastWrites, lastWrite, orchVars, partVars>>

peerInitProject ==
    \E n \in Names, ok \in WriteOutcomes :
        PeerReturn(InitProject(Start(peerCheckpoint, disk), n, ok, now))

peerUpdateProgress ==
    \E n \in Names, k \in IssueKeys, i \in Indexes, ok1, ok2 \in WriteOutcomes :
        PeerReturn(UpdateProgress(Start(peerCheckpoint, disk), n, k, i, ok1, ok2, now))

peerMarkProjectCompleted ==
    \E n \in Names, ok \in WriteOutcomes :
        PeerReturn(MarkProjectCompleted(Start(peerCheckpoint, disk), n, ok, now))

peerClear ==
    \E ok \in WriteOutcomes :
        PeerReturn(Clear(Start(peerCheckpoint, disk), ok, now))

\* the calls of two CheckpointManager instances, interleaved; each call is
\* synchronous, so the calls of two processes are atomic to each other
NextShared ==
    \/ NextLedger
    \/ peerInitProject
    \/ peerUpdateProgress
    \/ peerMarkProjectCompleted
    \/ peerClear

\* two instances constructed over no checkpoint file or over the file an
\* earlier run left
InitShared ==
    /\ ClientInit
    /\ total = 0
    /\ env = [caps |-> {NoLimit}, latencies |-> {0}, faults |-> Faults]
    /\ faultsLeft = 0
    /\ callsLeft = 0
    /\ NoScraper
    /\ NoTask
    /\ NoCallers
    /\ LET earlier == [EmptyDoc(0) EXCEPT !.projects =
                           Put(@, "KAFKA", CompletedRecord("KAFKA", "KAFKA-2", MaxIndex, 0))]
       IN  \/ LedgerStart(Absent, EmptyDoc(0), StartClock, MaxSharedOps)
           \/ LedgerStart(File(Stringify(earlier)), earlier, StartClock, MaxSharedOps)

SpecShared == InitShared /\ [][NextShared]_vars

(* ---------------------------- orchestrator ---------------------------- *)
TARGET_PROJECTS == <<"KAFKA", "SPARK", "HADOOP">>

\* issue.key of the item at a position of the collection
IssueKey(item) == ToString(item)

\* the process is running scrape()
Running == phase \in {"project", "issues"}

\* the ledger state a synchronous stretch of the orchestrator ends with
Commit(st) ==
    /\ checkpoint' = st.doc
    /\ disk' = st.disk
    /\ durableDoc' = st.written
    /\ lastWrite' = IF st.writes = <<>> THEN lastWrite ELSE "ok"
    /\ UNCHANGED <<loaded, opsLeft, writeFaultsLeft, lastCall, prevDoc, prevDisk,
                   lastWrites, peerCheckpoint, peerWrites>>

\* mutant: the project loop does not test isProjectCompleted
FirstPendingNoSkip(k, doc, res) == IF k > Len(TARGET_PROJECTS) THEN 0 ELSE k

\* the position of the first project from k on that the loop of scrape()
\* does not skip, 0 when there is none
RECURSIVE FirstPending(_, _, _)
FirstPending(k, doc, res) ==
    IF k > Len(TARGET_PROJECTS) THEN 0
    ELSE IF res /\ isProjectCompleted(doc, TARGET_PROJECTS[k])
         THEN FirstPending(k + 1, doc, res)
         ELSE k

\* flattenForLLMTraining and exportToJsonl: one line per issue of every
\* project in scrapedData, written to a new file (none when it is empty)
ExportToJsonl(data) ==
    UNION {{<<data[p].key, data[p].issues[j]>> : j \in DOMAIN data[p].issues} :
              p \in DOMAIN data}

\* the loop of scrape() from position k with the ledger as st and
\* scrapedData as data: up to the await in getProject of the next project,
\* or through the final summary and the export
Continue(k, st, data) ==
    LET k2 == FirstPending(k, st.doc, resume) IN
    /\ Commit(st)
    /\ scrapedData' = data
    /\ current' = k2
    /\ IF k2 = 0
       THEN /\ phase' = "summary"
            /\ outputs' = outputs \cup ExportToJsonl(data)
            /\ attempted' = attempted
            /\ UNCHANGED <<op, url, result, pages, pageFailed, page, retryCount,
                           response, error, attempts, backoffs, all429, lastK, lastWaits,
                           pc, clientVars, pagingVars, prevIssuedAt, fetchCalls,
                           asked>>
       ELSE /\ phase' = "project"
            /\ outputs' = outputs
            /\ attempted' = Append(attempted, TARGET_PROJECTS[k2])
            /\ CallGetProject(TARGET_PROJECTS[k2])

\* mutant: a project that failed ends the loop of scrape()
AfterFailureAborts(k) == Len(TARGET_PROJECTS) + 1

\* where the loop of scrape() goes on after scrapeProject returned null or
\* threw for the project at position k: `continue`
AfterFailure(k) == k + 1

\* mutant: a scraped project is not marked completed
AfterLoopUnmarked(st, key, t) == st

\* scrape() after scrapeProject returned the project data
AfterLoop(st, key, t) == MarkProjectCompleted(st, key, TRUE, t)

\* scrape(resume) from its start
scrape ==
    /\ phase = "boot"
    /\ LET st == IF resume THEN Start(checkpoint, disk)
                 ELSE Clear(Start(checkpoint, disk), TRUE, now)
       IN  /\ startDoc' = st.doc
           /\ Continue(1, st, scrapedData)
    /\ UNCHANGED <<now, envVars, faultsLeft, callsLeft, resume, lastIndex,
                   processed, mayRestart, badItems, partVars>>

\* scrapeProject after `await this.client.getProject(projectKey)`; shaped is
\* whether the project document has the fields lines 113-115 read
projectFetched ==
    /\ phase = "project"
    /\ pc = "idle"
    /\ op = "none"
    /\ LET key == TARGET_PROJECTS[current] IN
       \E shaped \in BOOLEAN :
          IF result.kind = "project" /\ shaped
          THEN LET st == InitProject(Start(checkpoint, disk), key, TRUE, now) IN
               /\ Commit(st)
               /\ lastIndex' = getLastIndex(st.doc, key)
               /\ phase' = "issues"
               /\ CallGetAllIssues(key, MAX_ISSUES_PER_PROJECT)
               /\ UNCHANGED <<current, attempted, scrapedData, outputs>>
          ELSE /\ Continue(AfterFailure(current), Start(checkpoint, disk), scrapedData)
               /\ UNCHANGED <<lastIndex>>
    /\ UNCHANGED <<now, envVars, faultsLeft, callsLeft, resume, processed,
                   startDoc, mayRestart, badItems, partVars>>

Max(a, b) == IF a > b THEN a ELSE b

\* mutant: the resume slice starts at lastIndex
IssuesToProcessInclusive(issues, last) == SubSeq(issues, Max(1, last + 1), Len(issues))

\* issues.slice(lastIndex + 1)
IssuesToProcess(issues, last) == SubSeq(issues, last + 2, Len(issues))

\* the ledger after the first n passes of the item loop over todo: pass i
\* (from 0) visits the item at globalIndex last + 1 + i and, unless
\* transformIssue throws on it, updates the checkpoint when (i + 1) % 10 = 0;
\* the passes in between leave the ledger alone
RECURSIVE Loop(_, _, _, _, _, _)
Loop(st, key, todo, last, n, t) ==
    IF n = 0 THEN st
    ELSE IF n % CheckpointEvery # 0
         THEN Loop(st, key, todo, last, n - (n % CheckpointEvery), t)
         ELSE LET i == n - 1
                  globalIndex == last + 1 + i
                  \* pass i on the ledger the earlier passes left
                  Pass(before) ==
                      IF todo[n] \notin badItems
                      THEN UpdateProgress(before, key, IssueKey(todo[n]),
                                          globalIndex, TRUE, TRUE, t)
                      ELSE before
              IN  \* the earlier passes are evaluated once, as a set element
                  CHOOSE after \in {Pass(before) :
                                      before \in {Loop(st, key, todo, last,
                                                        n - CheckpointEvery, t)}} : TRUE

\* scrapeProject after `await this.client.getAllIssues(...)`, then scrape()
\* up to its next await
issuesFetched ==
    /\ phase = "issues"
    /\ pc = "idle"
    /\ op = "none"
    /\ LET key == TARGET_PROJECTS[current]
           todo == IssuesToProcess(result.issues, lastIndex)
           looped == Loop(Start(checkpoint, disk), key, todo, lastIndex, Len(todo), now)
       IN  IF Len(result.issues) = 0
           THEN /\ UNCHANGED processed
                /\ Continue(AfterFailure(current), Start(checkpoint, disk), scrapedData)
           ELSE /\ processed' = [key |-> key, last |-> lastIndex,
                                 fetched |-> Len(result.issues), items |-> todo]
                /\ Continue(current + 1, AfterLoop(looped, key, now),
                            Append(scrapedData,
                                   [key |-> key,
                                    issues |-> SelectSeq(todo, LAMBDA item :
                                                             item \notin badItems)]))
    /\ UNCHANGED <<now, envVars, faultsLeft, callsLeft, resume, lastIndex,
                   startDoc, mayRestart, badItems, partVars>>

\* mutant: the signal handler saves the checkpoint
OnSignalSaves(st, t) == Save(st, TRUE, t)

\* the SIGINT and SIGTERM handlers: log, process.exit(0)
OnSignal(st, t) == st

\* SIGINT or SIGTERM; the handler runs when the event loop is idle, which
\* it is only while a request or a sleep of the client is pending
Signal ==
    /\ Running
    /\ pc \in {"rateLimit", "inflight"}
    /\ phase' = "interrupted"
    /\ Commit(OnSignal(Start(checkpoint, disk), now))
    /\ UNCHANGED <<apiVars, now, resume, current, lastIndex, processed,
                   attempted, startDoc, mayRestart, badItems, scrapedData, outputs, partVars>>

\* the process dies (kill -9, power loss) while a request is pending
Crash ==
    /\ Running
    /\ pc \in {"rateLimit", "inflight"}
    /\ phase' = "crashed"
    /\ UNCHANGED <<apiVars, now, ledgerVars, resume, current, lastIndex,
                   processed, attempted, startDoc, mayRestart, badItems,
                   scrapedData, outputs, partVars>>

\* the process dies inside the item loop, after n passes; a process that
\* no later one follows is not followed into its loop
CrashInLoop ==
    /\ mayRestart
    /\ phase = "issues"
    /\ pc = "idle"
    /\ op = "none"
    /\ LET key == TARGET_PROJECTS[current]
           todo == IssuesToProcess(result.issues, lastIndex)
       IN  \E n \in 0..Len(todo) :
              /\ Commit(Loop(Start(checkpoint, disk), key, todo, lastIndex, n, now))
              /\ processed' = [key |-> key, last |-> lastIndex,
                               fetched |-> Len(result.issues),
                               items |-> SubSeq(todo, 1, n)]
    /\ phase' = "crashed"
    /\ UNCHANGED <<apiVars, now, resume, current, lastIndex, attempted,
                   startDoc, mayRestart, badItems, scrapedData, outputs, partVars>>

\* main() of a later process: new JiraRestScraper(), to call scrape(true)
main ==
    /\ phase \in {"summary", "interrupted", "crashed"}
    /\ mayRestart
    /\ mayRestart' = FALSE
    /\ now' = now + Latency
    /\ checkpoint' = Load(disk, now')
    /\ loaded' = (disk.kind = "file")
    /\ lastWrite' = "none"
    /\ phase' = "boot"
    /\ resume' = TRUE
    /\ current' = 0
    /\ lastIndex' = -1
    /\ processed' = NoLoop
    /\ attempted' = <<>>
    /\ scrapedData' = <<>>
    /\ startDoc' = checkpoint'
    /\ requestCount' = 0
    /\ lastRequestTime' = 0
    /\ op' = "none"
    /\ pc' = "idle"
    /\ retryCount' = 0
    /\ response' = NoResponse
    /\ error' = <<>>
    /\ limit' = NoLimit
    /\ allIssues' = <<>>
    /\ startAt' = 0
    /\ hasMore' = FALSE
    /\ page' = NoPage
    /\ result' = NoResult
    /\ attempts' = 0
    /\ backoffs' = 0
    /\ all429' = TRUE
    /\ lastK' = 0
    /\ lastWaits' = <<>>
    /\ prevIssuedAt' = -1
    /\ pages' = <<>>
    /\ pageFailed' = FALSE
    /\ fetchCalls' = 0
    /\ url' = ""
    /\ asked' = {}
    /\ UNCHANGED <<envVars, faultsLeft, callsLeft, disk, durableDoc, opsLeft,
                   writeFaultsLeft, lastCall, prevDoc, prevDisk, lastWrites,
                   peerCheckpoint, peerWrites, badItems, outputs,
                   partVars>>

\* the client at work for the running process
clientStep ==
    /\ Running
    /\ \/ rateLimit
       \/ RespondSuccess
       \/ RespondFault
       \/ getProjectSettles
       \/ searchIssuesSettles
       \/ getAllIssuesStep

\* one run of scrape() to its summary
NextRun ==
    \/ scrape
    \/ clientStep
    \/ projectFetched
    \/ issuesFetched

NextScraper ==
    \/ NextRun
    \/ Signal
    \/ Crash
    \/ CrashInLoop
    \/ main

\* the outcomes of a request in the orchestrator scenarios
RunFaults == {Http(404, NoHeader, <<"Not", "Found">>, TRUE), Http(500, NoHeader, <<>>, TRUE)}

\* the document an earlier run leaves that completed KAFKA and died in the
\* item loop of SPARK after its first checkpoint update
EarlierRun ==
    [EmptyDoc(0) EXCEPT !.projects =
        Put(Put(@, "KAFKA", CompletedRecord("KAFKA", IssueKey(MidTotal - 1), MidTotal - 1, 0)),
            "SPARK", [FreshRecord("SPARK", 0) EXCEPT
                         !.lastIssueKey = IssueKey(CheckpointEvery - 1),
                         !.lastIssueIndex = CheckpointEvery - 1,
                         !.totalIssuesProcessed = 1])]

\* new JiraRestScraper() in main()
ScraperInit ==
    /\ ClientInit
    /\ env = [caps |-> {MAX_ISSUES_PER_PROJECT}, latencies |-> {0}, faults |-> RunFaults]
    /\ callsLeft = 0
    /\ phase = "boot"
    /\ current = 0
    /\ lastIndex = -1
    /\ processed = NoLoop
    /\ attempted = <<>>
    /\ scrapedData = <<>>
    /\ outputs = {}

\* single-run scenarios: one process, over no checkpoint file or over the
\* file of an earlier run, a one-page collection, many faults
InitRun ==
    /\ ScraperInit
    /\ NoTask
    /\ NoCallers
    /\ total \in {0, MidTotal}
    /\ badItems = {}
    /\ faultsLeft = MaxRunFaults
    /\ \/ LedgerInit(Absent, EmptyDoc(0), StartClock)
       \/ LedgerInit(File(Stringify(EarlierRun)), EarlierRun, StartClock)
    /\ startDoc = checkpoint
    /\ resume \in BOOLEAN
    /\ mayRestart = FALSE

\* restart scenarios: a first process over no checkpoint file that may be
\* interrupted or die, and a later process over the file it left; a
\* collection of several pages, items transformIssue throws on, few faults
InitScraper ==
    /\ ScraperInit
    /\ NoTask
    /\ NoCallers
    /\ total = MaxTotal
    /\ badItems \in {{}, {BadItem}}
    /\ faultsLeft = MaxScraperFaults
    /\ LedgerInit(Absent, EmptyDoc(0), StartClock)
    /\ startDoc = checkpoint
    /\ resume = TRUE
    /\ mayRestart = TRUE

SpecScraper == InitScraper /\ [][NextScraper]_vars

\* fairness: the event loop runs every continuation and every request settles
SpecRun == InitRun /\ [][NextRun]_vars /\ WF_vars(NextRun)




(* ============================ properties ============================== *)
\* the position right after fetchWithRetry settled, before its caller runs
FetchThrown == pc = "thrown"
FetchReturned == pc = "returned"
\* the last attempt ended the logical request with an error
EndedInError == pc \in {"thrown", "page", "idle"} /\ error # <<>>

ClientErrorStatus(r) == r.kind = "http" /\ r.status >= 400 /\ r.status <= 499 /\ r.status # 429
ServerErrorStatus(r) == r.kind = "http" /\ r.status >= 500 /\ r.status <= 599

AllDigits(v) == v # <<>> /\ \A i \in 1..Len(v) : v[i] \in DigitChars

\* C1 (stated as claimed): one logical request never makes more than 3
\* outbound attempts, whatever mix of 429, 5xx and transport failures answers.
C1_AtMostThreeAttempts == attempts <= 3

\* C2: a logical request answered 429 on every attempt is retried exactly
\* maxRetries = 3 times (4 attempts) and only then fails with the
\* rate-limit-exceeded error; that error never appears earlier.
C2_Exact429Retries ==
    /\ (all429 /\ attempts > 0) => ~FetchReturned /\ attempts <= maxRetries + 1
    /\ (all429 /\ FetchThrown) =>
          /\ attempts = maxRetries + 1
          /\ lastK = maxRetries
          /\ error = <<"Rate", "limit", "exceeded", "after", "3", "retries">>
    /\ (error = <<"Rate", "limit", "exceeded", "after", "3", "retries">>) =>
          attempts = maxRetries + 1

C2_Witness == all429 /\ FetchThrown /\ attempts = 4 /\ requestCount >= 4

\* C3 (stated as claimed): a 4xx response other than 429 ends the logical
\* request at once: no backoff, no further attempt, and an error carrying
\* the status and the body.
C3_ClientErrorNeverRetried ==
    ClientErrorStatus(response) =>
        /\ EndedInError
        /\ lastWaits = <<>>
        /\ attempts = lastK + 1
        /\ error = <<"Client", "error", ToString(response.status), ":">> \o response.body

C5_RetryAfterHonoured ==
    (response.kind = "http" /\ response.status = 429) =>
        LET ra == response.retryAfter
            w == lastWaits[1]
        IN  IF ra.present
            THEN /\ ~w.nan
                 /\ AllDigits(ra.value) => w = Num(DecimalValue(ra.value, 0) * 1000)
            ELSE w = Num(Pow2(lastK) * 1000)

\* C6: after a 5xx answer to the attempt with retry count k the backoff is
\* exactly 2^k seconds (1 s, 2 s, 4 s for k = 0, 1, 2), whatever
\* Retry-After header the response carries.
C6_ServerErrorBackoff ==
    ServerErrorStatus(response) =>
        /\ lastWaits = <<Num(Pow2(lastK) * 1000)>>
        /\ lastK = 0 => Sleep(lastWaits[1]) = 1000
        /\ lastK = 1 => Sleep(lastWaits[1]) = 2000
        /\ lastK = 2 => Sleep(lastWaits[1]) = 4000

C6_Witness ==
    /\ response = Http(599, Header(<<"2">>), <<>>, FALSE)
    /\ lastK = 2
    /\ lastWaits = <<Num(4000)>>
    /\ pc = "rateLimit"

\* C7 (stated as claimed): fetchWithRetry returns a response to its caller
\* only when the final status is 2xx.
C7_ReturnsOnly2xx == FetchReturned => IsOk(response.status)

\* C7 (amended): fetchWithRetry returns a response to its caller exactly
\* when the final status is neither 4xx (429 included) nor 5xx, so a 304
\* is returned as well as a 2xx; a 4xx or 5xx answer always ends in a
\* retry or an error, and so does a rejected fetch().
C7_ReturnsUnlessErrorStatus ==
    /\ FetchReturned =>
          /\ response.kind = "http"
          /\ ~(response.status >= 400 /\ response.status <= 599)
          /\ error = <<>>
    /\ (response.kind = "http" /\ response.status >= 400 /\ response.status <= 599) =>
          \/ pc \in {"rateLimit", "inflight"} /\ retryCount = lastK + 1
          \/ EndedInError
    /\ (response.kind = "http" /\ response.status \in {200, 304}) =>
          pc \in {"returned", "page", "idle"} /\ error = <<>>

C7_Witness == FetchReturned /\ response.status = 304

\* C8: in sequential use any two consecutive fetch() calls of one client,
\* first attempts and retries alike, are at least minDelay = 1000 ms apart,
\* also after a Retry-After of 0.
C8_RequestsPaced ==
    prevIssuedAt # -1 => lastRequestTime - prevIssuedAt >= 1000

C8_Witness ==
    /\ response = Http(429, Header(<<"0">>), <<>>, FALSE)
    /\ pc = "inflight"
    /\ attempts = lastK + 2
    /\ lastRequestTime - prevIssuedAt = 1000

PagesFrom0(n) == [i \in 1..n |-> maxResults * (i - 1)]
FirstItems(n) == [i \in 1..n |-> i - 1]
CeilDiv(a, b) == (a + b - 1) \div b
GetAllIssuesDone == result.kind = "issues"

\* C9: with no cap and every page succeeding, getAllIssues requests exactly
\* ceil(T/50) pages at startAt 0, 50, 100, ... (one page when T = 0) and
\* returns exactly the T items; 3 pages and 137 items for T = 137.
C9_AllPagesNoCap ==
    (GetAllIssuesDone /\ limit = NoLimit /\ ~pageFailed) =>
        /\ pages = PagesFrom0(IF total = 0 THEN 1 ELSE CeilDiv(total, 50))
        /\ result.issues = FirstItems(total)
        /\ total = 137 => pages = <<0, 50, 100>> /\ Len(result.issues) = 137

C9_Witness ==
    /\ GetAllIssuesDone /\ limit = NoLimit /\ ~pageFailed
    /\ total = 137
    /\ pages = <<0, 50, 100>>
    /\ Len(result.issues) = 137

\* C10: with a cap c >= 1 and every page succeeding, getAllIssues returns
\* exactly the first min(c, T) items and requests no page after the first
\* one at which the accumulated count reaches c; 60 items after 2 pages for
\* T = 137 and c = 60.
C10_CapStopsPaging ==
    (GetAllIssuesDone /\ limit >= 1 /\ ~pageFailed) =>
        /\ result.issues = FirstItems(Min(limit, total))
        /\ pages = PagesFrom0(IF total = 0 THEN 1
                              ELSE CeilDiv(Min(limit, total), 50))
        /\ (total = 137 /\ limit = 60) =>
              Len(result.issues) = 60 /\ pages = <<0, 50>>

C10_Witness ==
    /\ GetAllIssuesDone /\ ~pageFailed
    /\ total = 137 /\ limit = 60
    /\ Len(result.issues) = 60
    /\ pages = <<0, 50>>


\* C11: when the page request at offset s fails terminally (a client error,
\* or retries exhausted), getAllIssues raises nothing, requests no further
\* page and returns exactly the items of the pages before s (none for s = 0).
C11_PartialResultOnFailure ==
    (op = "none" /\ pageFailed) =>
        /\ GetAllIssuesDone
        /\ pages = PagesFrom0(Len(pages))
        /\ startAt = pages[Len(pages)]
        /\ result.issues = FirstItems(startAt)
        /\ Len(result.issues) = maxResults * (Len(pages) - 1)

C11_Witness ==
    /\ op = "none" /\ pageFailed
    /\ error = <<"Server", "error", "500", "after", "3", "retries">>
    /\ attempts = 4
    /\ pages = <<0, 50, 100>>
    /\ Len(result.issues) = 100

\* C12: getProject never raises; it returns null on every request failure
\* (client error, exhausted retries, non-ok status, unparsable body) and
\* the parsed project only when the request succeeded.
C12_GetProjectNullOnFailure ==
    /\ (pc = "idle" /\ result.kind # "none") => result.kind \in {"project", "null", "issues"}
    /\ result.kind = "project" =>
          /\ response.kind = "http"
          /\ response.status >= 200 /\ response.status <= 299
          /\ response.parsable
          /\ error = <<>>
    /\ result.kind = "null" =>
          \/ error # <<>>
          \/ response.kind = "http"
               /\ ~(response.status >= 200 /\ response.status <= 299 /\ response.parsable)

C12_Witness ==
    /\ result.kind = "null"
    /\ response = Http(200, NoHeader, <<>>, FALSE)
    /\ requestCount >= 1

\* C13: requestCount equals the number of fetch() calls the client instance
\* has made: every attempt, first or retry, successful or failed, adds one.
C13_CounterCountsAttempts == requestCount = fetchCalls

C13_Witness == requestCount = 5 /\ retryCount = 3 /\ pc = "inflight"

(* ------------------------- ledger properties -------------------------- *)
\* n had a record before the last call / has one now
Existed(n) == n \in DOMAIN prevDoc.projects
Exists(n) == n \in DOMAIN checkpoint.projects

\* the four fields of a record that carry progress
ProgressFields(rec) ==
    <<rec.lastIssueKey, rec.lastIssueIndex, rec.totalIssuesProcessed, rec.completed>>

\* the last call left the record of every name but n alone
OthersUnchanged(n) ==
    \A m \in Names \ {n} :
        /\ Exists(m) <=> Existed(m)
        /\ Exists(m) => checkpoint.projects[m] = prevDoc.projects[m]

\* the file holds the text of the in-memory document
Persisted == disk = File(Stringify(checkpoint))

\* the last call wrote the file, and a write that succeeded left the file
\* holding the in-memory document
Persists ==
    /\ lastWrites # <<>>
    /\ lastWrites[Len(lastWrites)] => Persisted

\* C14: in a sequence of ledger calls without clear, the lastIssueIndex of a
\* record that is not completed never decreases
C14_IndexNeverDecreases ==
    \A n \in Names :
        (/\ lastCall.op \in {"initProject", "updateProgress", "markProjectCompleted"}
         /\ Existed(n)
         /\ ~prevDoc.projects[n].completed)
        => /\ Exists(n)
           /\ checkpoint.projects[n].lastIssueIndex >= prevDoc.projects[n].lastIssueIndex

\* C15: initProject, updateProgress and markProjectCompleted leave
\* lastIssueKey, lastIssueIndex, totalIssuesProcessed and completed of a
\* completed record unchanged
C15_CompletedRecordImmutable ==
    \A n \in Names :
        (/\ lastCall.op \in {"initProject", "updateProgress", "markProjectCompleted"}
         /\ Existed(n)
         /\ prevDoc.projects[n].completed)
        => /\ Exists(n)
           /\ ProgressFields(checkpoint.projects[n]) = ProgressFields(prevDoc.projects[n])

\* C16: initProject(name) creates the record (lastIssueIndex -1,
\* totalIssuesProcessed 0, completed false) when the name has none, and
\* changes nothing, in memory or in the file, when it has one
C16_InitProjectCreatesOrKeeps ==
    lastCall.op = "initProject" =>
        LET n == lastCall.name IN
        IF Existed(n)
        THEN /\ checkpoint = prevDoc
             /\ disk = prevDisk
             /\ lastWrites = <<>>
        ELSE /\ Exists(n)
             /\ ProgressFields(checkpoint.projects[n]) = <<"", -1, 0, FALSE>>
             /\ checkpoint.projects[n].projectKey = n
             /\ OthersUnchanged(n)

C16_Witness ==
    /\ lastCall.op = "initProject"
    /\ Existed(lastCall.name)
    /\ prevDoc.projects[lastCall.name].lastIssueIndex = MaxIndex
    /\ prevDoc.projects[lastCall.name].totalIssuesProcessed > 0
    /\ checkpoint.projects[lastCall.name].lastIssueIndex = MaxIndex

\* C17: updateProgress(name, id, i) sets lastIssueKey to id and
\* lastIssueIndex to i, adds one to totalIssuesProcessed, creates the record
\* first when there is none, and persists; afterwards getLastIndex(name) is i,
\* and getLastIndex of a name without a record is -1
C17_UpdateProgressRecords ==
    /\ lastCall.op = "updateProgress" =>
        LET n == lastCall.name
            before == IF Existed(n) THEN prevDoc.projects[n]
                      ELSE FreshRecord(n, now)
        IN  /\ Exists(n)
            /\ ProgressFields(checkpoint.projects[n]) =
                   <<lastCall.key, lastCall.index,
                     before.totalIssuesProcessed + 1, before.completed>>
            /\ OthersUnchanged(n)
            /\ Persists
            /\ getLastIndex(checkpoint, n) = lastCall.index
    /\ \A m \in Names : ~Exists(m) => getLastIndex(checkpoint, m) = -1

C17_Witness ==
    /\ lastCall.op = "updateProgress"
    /\ ~Existed(lastCall.name)
    /\ lastCall.index = MaxIndex
    /\ lastWrites = <<TRUE, TRUE>>
    /\ getLastIndex(checkpoint, lastCall.name) = MaxIndex
    /\ \E m \in Names : getLastIndex(checkpoint, m) = -1

\* C18: markProjectCompleted(name) sets completed on an existing record and
\* persists, after which isProjectCompleted(name) is true; without a record
\* it creates none and writes nothing; isProjectCompleted is false for every
\* name without a record
C18_MarkCompleted ==
    /\ lastCall.op = "markProjectCompleted" =>
        LET n == lastCall.name IN
        IF Existed(n)
        THEN /\ Exists(n)
             /\ checkpoint.projects[n] = [prevDoc.projects[n] EXCEPT !.completed = TRUE]
             /\ OthersUnchanged(n)
             /\ Persists
             /\ isProjectCompleted(checkpoint, n)
        ELSE /\ checkpoint = prevDoc
             /\ disk = prevDisk
             /\ lastWrites = <<>>
    /\ \A m \in Names : ~Exists(m) => ~isProjectCompleted(checkpoint, m)

C18_Witness ==
    /\ lastCall.op = "markProjectCompleted"
    /\ Existed(lastCall.name)
    /\ ~prevDoc.projects[lastCall.name].completed
    /\ isProjectCompleted(checkpoint, lastCall.name)
    /\ lastWrites = <<TRUE>>
    /\ \E m \in Names : ~Exists(m)

\* C19 as stated: after clear() the persisted document, as a reload reads
\* it, contains no records
C19_PersistedEmptyAfterClear ==
    lastCall.op = "clear" => DOMAIN Load(disk, now).projects = {}

\* C19: after clear(), isProjectCompleted is false and getLastIndex is -1
\* for every name; clear() writes once, a write that succeeds leaves a file
\* without records, a write that fails leaves the file as it was
C19_ClearResets ==
    lastCall.op = "clear" =>
        /\ \A n \in Names :
              /\ ~isProjectCompleted(checkpoint, n)
              /\ getLastIndex(checkpoint, n) = -1
        /\ Len(lastWrites) = 1
        /\ lastWrites[1] => (Persisted /\ disk.text.entries = {})
        /\ ~lastWrites[1] => disk = prevDisk

C19_Witness ==
    /\ lastCall.op = "clear"
    /\ \E n \in Names : Existed(n) /\ prevDoc.projects[n].completed
    /\ lastWrites = <<TRUE>>
    /\ disk.text.entries = {}

\* the last call is one that mutates the document
Mutated ==
    \/ lastCall.op \in {"updateProgress", "clear"}
    \/ lastCall.op = "initProject" /\ ~Existed(lastCall.name)
    \/ lastCall.op = "markProjectCompleted" /\ Existed(lastCall.name)

\* C20: every mutating call writes the document before it returns; while
\* the latest write succeeded, the file holds the in-memory document and a
\* reload yields it; while no write failed since construction, a reload
\* yields every record
C20_DurableEqualsMemory ==
    /\ Mutated => lastWrites # <<>>
    /\ (lastWrite = "ok" \/ (lastWrite = "none" /\ loaded)) =>
           /\ Persisted
           /\ Load(disk, now) = checkpoint
    /\ (lastWrite = "none" /\ ~loaded) => DOMAIN checkpoint.projects = {}

C20_Witness ==
    /\ lastCall.op = "load"
    /\ DOMAIN prevDoc.projects = Names
    /\ \E n \in Names : prevDoc.projects[n].timestamp > StartClock
    /\ checkpoint = prevDoc
    /\ Persisted

ReflectsLastCall ==
    LET n == lastCall.name IN
    CASE lastCall.op = "initProject" ->
            Exists(n) /\ ProgressFields(checkpoint.projects[n]) = <<"", -1, 0, FALSE>>
      [] lastCall.op = "updateProgress" ->
            /\ Exists(n)
            /\ checkpoint.projects[n].lastIssueKey = lastCall.key
            /\ getLastIndex(checkpoint, n) = lastCall.index
            /\ checkpoint.projects[n].totalIssuesProcessed =
                   (IF Existed(n) THEN prevDoc.projects[n].totalIssuesProcessed ELSE 0) + 1
      [] lastCall.op = "markProjectCompleted" -> isProjectCompleted(checkpoint, n)
      [] lastCall.op = "clear" -> DOMAIN checkpoint.projects = {}
      [] OTHER -> TRUE

\* save() calls the last call made
Saves ==
    IF lastCall.op = "updateProgress" /\ ~Existed(lastCall.name) THEN 2
    ELSE IF Mutated THEN 1 ELSE 0

\* C30: a writeFileSync that fails is not retried and not propagated: the
\* call returns with the in-memory document updated, one write per save(),
\* the file as it was, and document and file differ until a write succeeds
C30_WriteFailureSwallowed ==
    /\ Len(lastWrites) = Saves
    /\ (lastWrites # <<>> /\ \A j \in DOMAIN lastWrites : ~lastWrites[j]) =>
           /\ disk = prevDisk
           /\ ReflectsLastCall
    /\ lastWrite = "failed" => ~Persisted

C30_Witness ==
    /\ lastCall.op = "updateProgress"
    /\ Existed(lastCall.name)
    /\ lastWrites = <<FALSE>>
    /\ prevDisk.kind = "file"
    /\ disk = prevDisk
    /\ getLastIndex(checkpoint, lastCall.name) = MaxIndex
    /\ getLastIndex(Load(disk, now), lastCall.name) # MaxIndex

(* ---------------------- orchestrator properties ----------------------- *)
\* the file as the next process will read it
Durable == Load(disk, now)

\* the process has ended on a signal or died
Ended == phase \in {"interrupted", "crashed"}

\* positions L+1 .. N-1, in order
After(L, N) == [i \in 1..Max(0, N - L - 1) |-> L + i]

\* C22: with a last index L and N fetched items, the item loop visits the
\* items at positions L+1 .. N-1 in order, and none at a position <= L; a
\* process that dies in the loop has visited a prefix of them
C22_ResumeSlice ==
    processed.key # "" =>
        LET rest == After(processed.last, processed.fetched) IN
        /\ Len(processed.items) <= Len(rest)
        /\ processed.items = SubSeq(rest, 1, Len(processed.items))
        /\ phase # "crashed" => processed.items = rest
        /\ \A j \in DOMAIN processed.items : processed.items[j] > processed.last

C22_Witness ==
    /\ processed.last = CheckpointEvery - 1
    /\ processed.fetched = MidTotal
    /\ Len(processed.items) = MidTotal - CheckpointEvery
    /\ processed.items[1] = CheckpointEvery
    /\ processed.items[Len(processed.items)] = MidTotal - 1

\* C23: in a resumed run no request is sent for a project whose record was
\* completed when the run began, scrapeProject is not called for it, and
\* its record stays as it was
C23_CompletedSkipped ==
    (resume /\ phase \in {"project", "issues", "summary"}) =>
        \A k \in DOMAIN TARGET_PROJECTS :
            LET key == TARGET_PROJECTS[k] IN
            isProjectCompleted(startDoc, key) =>
                /\ key \notin asked
                /\ url # key
                /\ \A j \in DOMAIN attempted : attempted[j] # key
                /\ checkpoint.projects[key] = startDoc.projects[key]
                /\ Durable.projects[key] = startDoc.projects[key]

C23_Witness ==
    /\ resume
    /\ phase = "summary"
    /\ isProjectCompleted(startDoc, "KAFKA")
    /\ asked = {"SPARK", "HADOOP"}
    /\ attempted = <<"SPARK", "HADOOP">>
    /\ isProjectCompleted(checkpoint, "HADOOP")

\* C24: resuming a project after last index L >= 0, the client is asked for
\* no page that lies wholly at or before position L
C24_NoPageBeforeResumePoint ==
    (phase = "issues" /\ lastIndex >= 0) =>
        \A j \in DOMAIN pages : pages[j] + maxResults - 1 > lastIndex

Uncovered ==
    {j \in DOMAIN processed.items :
        /\ processed.items[j] \notin badItems
        /\ processed.items[j] > getLastIndex(Durable, processed.key)
        /\ ~isProjectCompleted(Durable, processed.key)}

\* C27: whenever the process ends, fewer than 10 of the items it has
\* processed are not covered by the persisted lastIssueIndex
C27_AtMostNineUnsaved ==
    (Ended /\ processed.key # "") => Cardinality(Uncovered) < CheckpointEvery

\* projects scrape() does not skip, in configured order
Pending == SelectSeq(TARGET_PROJECTS, LAMBDA key : ~(resume /\ isProjectCompleted(startDoc, key)))

\* C28: whatever fails in a project, scrape() reaches its summary, having
\* called scrapeProject for every project not completed at its start, in
\* configured order
C28_RunReachesSummary == <>(phase = "summary" /\ attempted = Pending)

C28_Witness ==
    /\ phase = "summary"
    /\ attempted = TARGET_PROJECTS
    /\ faultsLeft = 0
    /\ ~isProjectCompleted(checkpoint, "KAFKA")
    /\ ~isProjectCompleted(checkpoint, "SPARK")
    /\ isProjectCompleted(checkpoint, "HADOOP")

(* ------------------- processed counts and index range ----------------- *)
\* C31: every record with lastIssueIndex >= 0 that the runs wrote, starting
\* from no checkpoint file, has totalIssuesProcessed = lastIssueIndex + 1
C31_CountIsItemsProcessed ==
    \A n \in DOMAIN checkpoint.projects :
        checkpoint.projects[n].lastIssueIndex >= 0 =>
            checkpoint.projects[n].totalIssuesProcessed =
                checkpoint.projects[n].lastIssueIndex + 1

(* ---------------- two instances over one directory: claims ------------ *)
\* C32: a mutating call of either of two instances over the same directory
\* whose write succeeds leaves the file as the caller's whole in-memory
\* document, whatever the other instance had written
C32_LastWriterWins ==
    [][IF peerCheckpoint' # peerCheckpoint
       THEN (peerWrites' # <<>> /\ peerWrites'[Len(peerWrites')]) =>
                disk' = File(Stringify(peerCheckpoint'))
       ELSE (checkpoint' # checkpoint /\ lastWrites' # <<>>
                /\ lastWrites'[Len(lastWrites')]) =>
                disk' = File(Stringify(checkpoint'))]_vars

\* the first instance persisted KAFKA's record with its latest write, and
\* after a write of the second instance the file no longer has it
C32_Witness ==
    /\ ~loaded
    /\ lastCall.op = "initProject"
    /\ lastCall.name = "KAFKA"
    /\ lastWrite = "ok"
    /\ "KAFKA" \in DOMAIN checkpoint.projects
    /\ disk = File(Stringify(peerCheckpoint))
    /\ "KAFKA" \notin DOMAIN Load(disk, now).projects
    /\ "SPARK" \in DOMAIN Load(disk, now).projects

(* ------------------------ issue transformation ------------------------ *)
\* most labels and most comments of a raw issue
MaxLabels == 2
MaxComments == 2

\* the README's "10+ training tasks per issue"
PromisedTasks == 10

\* texts are token sequences: a token is an HTML tag or a word
Tags == {"<p>"}
Texts == {<<>>, <<"<p>">>, <<"word">>, <<"<p>", "word">>}

\* cleanText(text): '' for no text, else the text without its tags
CleanText(text) ==
    IF ~text.some \/ text.val = <<>> THEN <<>>
    ELSE SelectSeq(text.val, LAMBDA tok : tok \notin Tags)

\* a || b where a is a string: '' is falsy
OrElse(a, b) == IF a = <<>> THEN b ELSE a
\* a?.name || b: null, undefined and '' are falsy
NameOrElse(a, b) == IF ~a.some \/ a.val = "" THEN b ELSE a.val
\* a || b where a is an array: only null and undefined are falsy
ArrayOrElse(a, b) == IF ~a.some THEN b ELSE a.val

NoDescription == <<"No", "description", "provided.">>

\* the raw issues of the scenarios: fields.description, fields.resolution?.name,
\* fields.labels, fields.comment?.comments (by their authors)
RawIssues ==
    [description : {NullSeq} \cup {Some(t) : t \in Texts},
     resolution : {NullName, Some("Fixed"), Some("Unresolved")},
     labels : {NullSeq} \cup {Some([i \in 1..n |-> "label"]) : n \in 0..MaxLabels},
     comments : {NullSeq} \cup {Some([i \in 1..n |-> "author"]) : n \in 0..MaxComments}]

\* generateClassificationTasks: priority, status, and resolution when resolved
GenerateClassificationTasks(issue) ==
    <<"classification", "classification">> \o
    (IF issue.resolution # "" /\ issue.resolution # "Unresolved"
     THEN <<"classification">> ELSE <<>>)

\* generateQnAPairs: five questions
GenerateQnAPairs(issue) == <<"qna", "qna", "qna", "qna", "qna">>

\* generateExtractionTasks: the labels when there are any, the key information
GenerateExtractionTasks(issue) ==
    (IF Len(issue.labels) > 0 THEN <<"extraction">> ELSE <<>>) \o <<"extraction">>

\* generateCommentTasks: the discussion summary and the participant count
GenerateCommentTasks(issue) == <<"summarization", "qna">>

\* TaskGenerator.generateTasks(issue): the task types, in order
GenerateTasks(issue) ==
    (IF issue.description # <<>> THEN <<"summarization">> ELSE <<>>)
    \o GenerateClassificationTasks(issue)
    \o GenerateQnAPairs(issue)
    \o GenerateExtractionTasks(issue)
    \o (IF Len(issue.comments) > 0 THEN GenerateCommentTasks(issue) ELSE <<>>)

\* transformIssue(rawIssue): the fields the task generator reads
TransformIssue(raw) ==
    LET data == [description |-> OrElse(CleanText(raw.description), NoDescription),
                 resolution |-> NameOrElse(raw.resolution, "Unresolved"),
                 labels |-> ArrayOrElse(raw.labels, <<>>),
                 comments |-> ArrayOrElse(raw.comments, <<>>),
                 derivedTasks |-> <<>>]
    IN  [data EXCEPT !.derivedTasks = GenerateTasks(data)]

\* scrapeProject calls transformIssue on a fetched issue
transformIssue ==
    /\ issueData = NoIssue
    /\ issueData' = TransformIssue(rawIssue)
    /\ UNCHANGED <<apiVars, now, ledgerVars, orchVars, rawIssue, callers, issued>>

InitTasks ==
    /\ ClientInit
    /\ total = 0
    /\ env = [caps |-> {NoLimit}, latencies |-> {0}, faults |-> Faults]
    /\ faultsLeft = 0
    /\ callsLeft = 0
    /\ NoScraper
    /\ LedgerInit(Absent, EmptyDoc(0), StartClock)
    /\ rawIssue \in RawIssues
    /\ issueData = NoIssue
    /\ NoCallers

SpecTasks == InitTasks /\ [][transformIssue]_vars

\* C33: every issue transformIssue produces carries at least 10 derived tasks
C33_TenTasksPerIssue ==
    issueData # NoIssue => Len(issueData.derivedTasks) >= PromisedTasks

(* ----------------------- completion and outputs ----------------------- *)
\* C34: a project this run marked completed had every page up to the cap
\* fetched, and every fetched item after the last index was visited
C34_CompletedOnlyIfAllFetched ==
    (processed.key # "" /\ isProjectCompleted(checkpoint, processed.key)) =>
        /\ processed.fetched = Min(total, MAX_ISSUES_PER_PROJECT)
        /\ processed.items = After(processed.last, processed.fetched)

\* C35: when the run that follows an interrupted run ends, the issues of
\* every project it skipped as completed, and the issues of the project it
\* resumed that lie at or before the last index, are in an exported file
C35_SkippedItemsExported ==
    (phase = "summary" /\ ~mayRestart) =>
        /\ \A k \in DOMAIN TARGET_PROJECTS :
              LET key == TARGET_PROJECTS[k] IN
              isProjectCompleted(startDoc, key) =>
                  \A i \in 0..getLastIndex(startDoc, key) :
                      i \notin badItems => <<key, i>> \in outputs
        /\ processed.key # "" =>
              \A i \in 0..processed.last :
                  i \notin badItems => <<processed.key, i>> \in outputs

(* ------------------------- paging and retries ------------------------- *)
\* C36: getAllIssues returns; the offsets it requests are 0, 50, 100, ...,
\* each once, at most ceil(T/50) of them (one when T = 0), and no logical
\* request makes more than maxRetries + 1 attempts
C36_GetAllIssuesTerminates ==
    /\ [](/\ pages = PagesFrom0(Len(pages))
          /\ Len(pages) <= Max(1, CeilDiv(total, maxResults))
          /\ attempts <= maxRetries + 1)
    /\ (op = "getAllIssues") ~> GetAllIssuesDone

C36_Witness ==
    /\ GetAllIssuesDone
    /\ total = MaxTotal
    /\ pages = PagesFrom0(CeilDiv(MaxTotal, maxResults))
    /\ attempts = maxRetries + 1
    /\ ~pageFailed
    /\ Len(result.issues) = MaxTotal

\* C37: with a cap of 0 getAllIssues requests the pages and returns the T
\* items it does with no cap; with a cap c >= 1 it returns at most c items
C37_ZeroCapIsNoCap ==
    GetAllIssuesDone =>
        /\ (limit = 0 /\ ~pageFailed) =>
              /\ result.issues = FirstItems(total)
              /\ pages = PagesFrom0(Max(1, CeilDiv(total, maxResults)))
        /\ limit >= 1 => Len(result.issues) <= limit

C37_Witness ==
    /\ GetAllIssuesDone
    /\ limit = 0
    /\ total = MaxTotal
    /\ Len(result.issues) = MaxTotal
    /\ Len(pages) = CeilDiv(MaxTotal, maxResults)

\* the final answer is one the client retries on: 429, 5xx, or a transport
\* failure whose message names the network
RetriedAnswer(r) ==
    \/ r.kind = "reject" /\ IsNetworkError(r.message)
    \/ r.kind = "http" /\ (Is429(r.status) \/ Is5xx(r.status))

\* C38: a logical request that fails with its retries exhausted on 429, 5xx
\* or a retried transport failure has suspended once more after its final
\* attempt, for the Retry-After value or 2^3 s, so it has backed off as many
\* times as it made attempts, 4
C38_BackoffBeforeGivingUp ==
    (FetchThrown /\ lastK = maxRetries /\ RetriedAnswer(response)) =>
        /\ attempts = maxRetries + 1
        /\ backoffs = attempts
        /\ lastWaits = <<IF response.kind = "http" /\ Is429(response.status)
                         THEN WaitTime429(response.retryAfter, maxRetries)
                         ELSE Backoff(maxRetries)>>
        /\ (response.kind = "reject" \/ ~Is429(response.status)
               \/ ~response.retryAfter.present) => Sleep(lastWaits[1]) = 8000

C38_Witness ==
    /\ FetchThrown
    /\ lastK = maxRetries
    /\ response.kind = "reject"
    /\ IsNetworkError(response.message)
    /\ backoffs = 4
    /\ lastWaits = <<Num(8000)>>

(* ------------------- overlapping calls on one client ------------------ *)
\* callers that use one JiraApiClient at the same time
MaxCallers == 2
\* logical requests they start between them
MaxOverlapCalls == 3

Callers == 1..MaxCallers

Idle == [pc |-> "idle", wakeAt |-> 0, saw |-> 0]

\* what the overlapping callers leave alone
restOfClient ==
    <<total, env, faultsLeft, op, pc, retryCount, response, error, limit,
      allIssues, startAt, hasMore, page, result, attempts, backoffs, all429,
      lastK, lastWaits, prevIssuedAt, pages, pageFailed, fetchCalls, url, asked>>

\* the end of rateLimit() and the fetch() call after it, for caller c
Issue(c, slept) ==
    /\ lastRequestTime' = now'
    /\ requestCount' = CountRequest(requestCount, 0)
    /\ issued' = Append(issued, [by |-> c, at |-> now', saw |-> callers'[c].saw,
                                 slept |-> slept])

\* caller c starts a logical request: rateLimit() up to its await, and
\* through its end and the fetch() call when it does not wait
callerEnters(c) ==
    /\ callers[c].pc = "idle"
    /\ callsLeft > 0
    /\ callsLeft' = callsLeft - 1
    /\ now' = now
    /\ LET delayNeeded == DelayNeeded(now, lastRequestTime) IN
       IF delayNeeded > 0
       THEN /\ callers' = [callers EXCEPT ![c] =
                              [pc |-> "sleeping",
                               wakeAt |-> now + Sleep(Num(delayNeeded)),
                               saw |-> lastRequestTime]]
            /\ UNCHANGED <<lastRequestTime, requestCount, issued>>
       ELSE /\ callers' = [callers EXCEPT ![c] =
                              [pc |-> "inflight", wakeAt |-> 0, saw |-> lastRequestTime]]
            /\ Issue(c, FALSE)
    /\ UNCHANGED <<restOfClient, ledgerVars, orchVars, rawIssue, issueData>>

\* the timer of caller c fires, on time or late: the rest of rateLimit()
\* and the fetch() call
callerWakes(c) ==
    /\ callers[c].pc = "sleeping"
    /\ \A d \in Callers : callers[d].pc = "sleeping" => callers[c].wakeAt <= callers[d].wakeAt
    /\ \E late \in env.latencies : now' = Max(now, callers[c].wakeAt) + late
    /\ callers' = [callers EXCEPT ![c].pc = "inflight"]
    /\ Issue(c, TRUE)
    /\ UNCHANGED <<restOfClient, callsLeft, ledgerVars, orchVars, rawIssue, issueData>>

\* the request of caller c settles and its logical request ends
callerSettles(c) ==
    /\ callers[c].pc = "inflight"
    /\ \E d \in env.latencies : now' = now + d
    /\ callers' = [callers EXCEPT ![c] = Idle]
    /\ UNCHANGED <<restOfClient, clientVars, callsLeft, issued, ledgerVars, orchVars,
                   rawIssue, issueData>>

NextOverlap ==
    \E c \in Callers :
        \/ callerEnters(c)
        \/ callerWakes(c)
        \/ callerSettles(c)

\* one client, no request made yet, and callers that do not wait for
\* each other
InitOverlap ==
    /\ ClientInit
    /\ total = 0
    /\ env = [caps |-> {NoLimit}, latencies |-> {0, Latency}, faults |-> Faults]
    /\ faultsLeft = 0
    /\ callsLeft = MaxOverlapCalls
    /\ NoScraper
    /\ LedgerInit(Absent, EmptyDoc(0), StartClock)
    /\ rawIssue = NoRawIssue
    /\ issueData = NoIssue
    /\ callers = [c \in Callers |-> Idle]
    /\ issued = <<>>

SpecOverlap == InitOverlap /\ [][NextOverlap]_vars

\* two requests both entered rateLimit() before either had set
\* lastRequestTime: both waited, on the same lastRequestTime
Overlapped(a, b) == a.slept /\ b.slept /\ a.saw = b.saw

\* C39: two requests that entered rateLimit() together are still issued at
\* least minDelay apart
C39_OverlappingCallsPaced ==
    \A i, j \in DOMAIN issued :
        (i < j /\ Overlapped(issued[i], issued[j])) =>
            issued[j].at - issued[i].at >= minDelay

(* ----------------------------- index range ---------------------------- *)
\* C40: with the cap of 100 issues per project every record in memory and
\* in the file has -1 <= lastIssueIndex <= 99, and an index the run wrote
\* is smaller than the number of issues the run fetched for the project
C40_IndexWithinFetched ==
    /\ \A doc \in {checkpoint, Durable} :
          \A n \in DOMAIN doc.projects :
              /\ doc.projects[n].lastIssueIndex >= -1
              /\ doc.projects[n].lastIssueIndex <= MAX_ISSUES_PER_PROJECT - 1
    /\ (processed.key # "" /\ getLastIndex(checkpoint, processed.key) # processed.last) =>
          getLastIndex(checkpoint, processed.key) < processed.fetched

C40_Witness ==
    /\ processed.key = "KAFKA"
    /\ processed.fetched = MAX_ISSUES_PER_PROJECT
    /\ processed.last = -1
    /\ getLastIndex(Durable, "KAFKA") = MAX_ISSUES_PER_PROJECT - 1

====
